---- MODULE Spec2Model ----
(***************************************************************************)
(* Model of scripts/export_bundles.py: the ChittyApps bundle exporter.     *)
(* One invocation of main() is a sequential process; the remote Notion     *)
(* service, the file system and the process environment are its            *)
(* environment.                                                            *)
(*                                                                         *)
(* Strings the code inspects character by character (database references)  *)
(* are sequences of one-character strings; other strings are TLA+ strings. *)
(* A Python dict whose key order matters is a sequence of <<key, value>>   *)
(* pairs in insertion order.  Python's None is the tuple <<"None">>.       *)
(***************************************************************************)
EXTENDS Integers, Sequences, FiniteSets, TLC

(* ---------------------------- bounds ----------------------------------- *)
MaxDbs == 2        \* databases per bundle
MaxFailAt == 2     \* the remote may fail the 1st .. MaxFailAt-th query of a run
MaxRuns == 2       \* invocations of the program on the same inputs

(* ------------------------ program constants ---------------------------- *)
PageSize == 100    \* kwargs["page_size"]
IdLen == 32        \* len(raw_id) == 32, len(clean) == 32

None == <<"None">>

(* ------------------------- generic helpers ----------------------------- *)
Range(s) == {s[i] : i \in DOMAIN s}
Rep(c, n) == [i \in 1..n |-> c]
Min(a, b) == IF a < b THEN a ELSE b

RECURSIVE SumSeq(_)
SumSeq(s) == IF s = <<>> THEN 0 ELSE Head(s) + SumSeq(Tail(s))

RECURSIVE JoinStr(_, _)
\* sep.join(parts)
JoinStr(sep, parts) ==
    IF parts = <<>> THEN ""
    ELSE IF Len(parts) = 1 THEN parts[1]
    ELSE parts[1] \o sep \o JoinStr(sep, Tail(parts))

(* dict helpers: a dict is a sequence of <<key, value>> pairs *)
dict_keys(d) == [i \in DOMAIN d |-> d[i][1]]
dict_has(d, k) == \E i \in DOMAIN d : d[i][1] = k
dict_get(d, k) == d[CHOOSE i \in DOMAIN d : d[i][1] = k][2]
\* record.get(k, default) on a TLA+ record / function
Get(r, k, default) == IF k \in DOMAIN r THEN r[k] ELSE default

(* ----------------------- str methods on char sequences ----------------- *)
startswith(s, p) == Len(s) >= Len(p) /\ SubSeq(s, 1, Len(p)) = p
contains(s, p) == \E i \in 1..(Len(s) - Len(p) + 1) : SubSeq(s, i, i + Len(p) - 1) = p
\* s.split(c)[0]
split_first(s, c) ==
    IF \E i \in DOMAIN s : s[i] = c
    THEN SubSeq(s, 1, (CHOOSE i \in DOMAIN s : s[i] = c /\ \A j \in 1..(i-1) : s[j] # c) - 1)
    ELSE s
\* s.split(c)[-1]
split_last(s, c) ==
    IF \E i \in DOMAIN s : s[i] = c
    THEN SubSeq(s, (CHOOSE i \in DOMAIN s : s[i] = c /\ \A j \in (i+1)..Len(s) : s[j] # c) + 1, Len(s))
    ELSE s
IsNotHyphen(ch) == ch # "-"
\* s.replace("-", "")
strip_hyphens(s) == SelectSeq(s, IsNotHyphen)

TODO_MARK == <<"T", "O", "D", "O", ":">>
NOTION_SO == <<"n", "o", "t", "i", "o", "n", ".", "s", "o">>

(* ------------------------- extract_notion_id --------------------------- *)
extract_notion_id_no_placeholder(url_or_id) ==
    LET raw_id == split_last(split_last(split_first(url_or_id, "?"), "/"), "-")
        clean == strip_hyphens(url_or_id)
    IN  IF contains(url_or_id, NOTION_SO) /\ Len(raw_id) = IdLen THEN raw_id
        ELSE IF Len(clean) = IdLen THEN clean
        ELSE url_or_id

extract_notion_id_keep_hyphens(url_or_id) ==
    IF startswith(url_or_id, TODO_MARK) THEN None
    ELSE LET raw_id == split_last(split_last(split_first(url_or_id, "?"), "/"), "-")
             clean == strip_hyphens(url_or_id)
         IN  IF contains(url_or_id, NOTION_SO) /\ Len(raw_id) = IdLen THEN raw_id
             ELSE IF Len(clean) = IdLen THEN url_or_id
             ELSE url_or_id

extract_notion_id(url_or_id) ==
    IF startswith(url_or_id, TODO_MARK) THEN None
    ELSE LET raw_id == split_last(split_last(split_first(url_or_id, "?"), "/"), "-")
             clean == strip_hyphens(url_or_id)
         IN  IF contains(url_or_id, NOTION_SO) /\ Len(raw_id) = IdLen THEN raw_id
             ELSE IF Len(clean) = IdLen THEN clean
             ELSE url_or_id

(* -------------------------- flatten_property --------------------------- *)
(* JSON scalars that the code stringifies or tests for null are tagged      *)
(* records; option/user/text-run objects are records of plain strings.      *)
JNull == [t |-> "null"]
JNum(n) == [t |-> "num", v |-> n]
JStr(s) == [t |-> "str", v |-> s]
JBool(b) == [t |-> "bool", v |-> b]
EmptyDict == <<>>

\* str(v) for a JSON scalar, as Python prints it
py_str(j) ==
    CASE j.t = "null" -> "None"
      [] j.t = "num" -> ToString(j.v)
      [] j.t = "bool" -> (IF j.v THEN "True" ELSE "False")
      [] OTHER -> j.v
\* v or ""  for a JSON string-or-null
or_empty(j) == IF j.t = "null" THEN "" ELSE j.v
\* truthiness of an object-or-null
truthy_obj(o) == o # JNull /\ o # EmptyDict

plain_texts(runs) == [i \in DOMAIN runs |-> Get(runs[i], "plain_text", "")]
names_of(opts) == [i \in DOMAIN opts |-> Get(opts[i], "name", "")]
ids_of(rels) == [i \in DOMAIN rels |-> Get(rels[i], "id", "")]
file_url(f) ==
    LET ext == Get(Get(f, "external", EmptyDict), "url", "")
    IN  IF ext # "" THEN ext ELSE Get(Get(f, "file", EmptyDict), "url", "")
file_urls(fs) == [i \in DOMAIN fs |-> file_url(fs[i])]

flatten_property(prop) ==
    LET prop_type == Get(prop, "type", "") IN
    CASE prop_type = "title" -> JoinStr("", plain_texts(Get(prop, "title", <<>>)))
      [] prop_type = "rich_text" -> JoinStr("", plain_texts(Get(prop, "rich_text", <<>>)))
      [] prop_type = "number" ->
            LET val == Get(prop, "number", JNull) IN IF val # JNull THEN py_str(val) ELSE ""
      [] prop_type = "select" ->
            LET sel == Get(prop, "select", JNull) IN IF truthy_obj(sel) THEN Get(sel, "name", "") ELSE ""
      [] prop_type = "multi_select" -> JoinStr(", ", names_of(Get(prop, "multi_select", <<>>)))
      [] prop_type = "date" ->
            LET d == Get(prop, "date", JNull) IN
            IF truthy_obj(d)
            THEN LET start == Get(d, "start", "")
                     end == Get(d, "end", "")
                 IN  IF end # "" THEN start \o " - " \o end ELSE start
            ELSE ""
      [] prop_type = "checkbox" -> py_str(Get(prop, "checkbox", JBool(FALSE)))
      [] prop_type = "url" -> or_empty(Get(prop, "url", JStr("")))
      [] prop_type = "email" -> or_empty(Get(prop, "email", JStr("")))
      [] prop_type = "phone_number" -> or_empty(Get(prop, "phone_number", JStr("")))
      [] prop_type = "status" ->
            LET s == Get(prop, "status", JNull) IN IF truthy_obj(s) THEN Get(s, "name", "") ELSE ""
      [] prop_type = "relation" -> JoinStr(", ", ids_of(Get(prop, "relation", <<>>)))
      [] prop_type = "formula" ->
            LET f == Get(prop, "formula", EmptyDict)
                f_type == Get(f, "type", "")
            IN  py_str(Get(f, f_type, JStr("")))
      [] prop_type = "rollup" ->
            LET r == Get(prop, "rollup", EmptyDict)
                r_type == Get(r, "type", "")
            IN  IF r_type = "array" THEN ToString(Len(Get(r, "array", <<>>)))
                ELSE py_str(Get(r, r_type, JStr("")))
      [] prop_type = "created_time" -> Get(prop, "created_time", "")
      [] prop_type = "last_edited_time" -> Get(prop, "last_edited_time", "")
      [] prop_type = "created_by" -> Get(Get(prop, "created_by", EmptyDict), "name", "")
      [] prop_type = "last_edited_by" -> Get(Get(prop, "last_edited_by", EmptyDict), "name", "")
      [] prop_type = "people" -> JoinStr(", ", names_of(Get(prop, "people", <<>>)))
      [] prop_type = "files" -> JoinStr(", ", file_urls(Get(prop, "files", <<>>)))
      [] OTHER -> ToString(prop)

(* ------------------------- the remote service -------------------------- *)
Chars(str) == [i \in 1..Len(str) |-> SubSeq(str, i, i)]

TitleProp(s) == [type |-> "title", title |-> <<[plain_text |-> s]>>]
StatusProp(n) == [type |-> "status", status |-> [name |-> n]]
TextProp(s) == [type |-> "rich_text", rich_text |-> <<[plain_text |-> s]>>]
NumberProp(j) == [type |-> "number", number |-> j]
Page(i, props) ==
    [id |-> "p" \o ToString(i), last_edited_time |-> "e" \o ToString(i), properties |-> props]

\* three records with the same two properties (the service lists Status first)
ThreeRows ==
    [i \in 1..3 |-> Page(i, << <<"Status", StatusProp("Live")>>,
                              <<"Name", TitleProp("n" \o ToString(i))>> >>)]
\* three pages of records; the later records lack a property of the first and
\* the second carries one the first does not have
Ragged ==
    [i \in 1..(2 * PageSize + 1) |->
        IF i = 1
        THEN Page(1, << <<"Name", TitleProp("n1")>>, <<"Count", NumberProp(JNum(7))>> >>)
        ELSE IF i = 2
        THEN Page(2, << <<"Status", StatusProp("Live")>>, <<"Count", NumberProp(JNull)>> >>)
        ELSE Page(i, << <<"Name", TitleProp("r")>> >>)]
\* exactly one full page; the first record has a user property named like a
\* synthetic column
Clash ==
    [i \in 1..PageSize |->
        IF i = 1
        THEN Page(1, << <<"_notion_id", TextProp("legacy-1")>>, <<"Name", TitleProp("n1")>> >>)
        ELSE Page(i, << <<"Name", TitleProp("r")>> >>)]
Bulk(n) == [i \in 1..n |-> Page(i, << <<"Name", TitleProp("r")>> >>)]

ID_A == Rep("a", IdLen)
ID_B == Rep("b", IdLen)
ID_C == Rep("c", IdLen)
ID_D == Rep("d", IdLen)
ID_E == Rep("e", IdLen)

\* the databases the service holds, by canonical identifier
RemoteIds == {ID_A, ID_B, ID_C, ID_D, ID_E}
RemoteRecords(id) ==
    CASE id = ID_A -> ThreeRows
      [] id = ID_B -> Bulk(PageSize + PageSize \div 2)
      [] id = ID_C -> Ragged
      [] id = ID_D -> <<>>
      [] id = ID_E -> Clash

\* notion.databases.query(**kwargs) when the call succeeds: the service
\* serves the records from the cursor's offset, page_size at a time
databases_query(kwargs) ==
    LET recs == RemoteRecords(kwargs.database_id)
        from == IF "start_cursor" \in DOMAIN kwargs THEN kwargs.start_cursor[2] ELSE 0
        to == Min(from + kwargs.page_size, Len(recs))
    IN  [results |-> SubSeq(recs, from + 1, to),
         has_more |-> to < Len(recs),
         next_cursor |-> IF to < Len(recs) THEN <<"cursor", to>> ELSE None]

(* ------------------------- database references ------------------------- *)
Dashed(id) ==
    SubSeq(id, 1, 8) \o <<"-">> \o SubSeq(id, 9, 12) \o <<"-">> \o SubSeq(id, 13, 16)
        \o <<"-">> \o SubSeq(id, 17, 20) \o <<"-">> \o SubSeq(id, 21, 32)

Refs ==
    { Chars("TODO:") \o Rep("x", IdLen - 5),                   \* placeholder, 32 characters
      ID_A,                                                    \* raw identifier
      Dashed(ID_B),                                            \* dashed UUID
      Chars("https://www.notion.so/ws/Title-") \o ID_C \o Chars("?v=1"),
      ID_D,
      Dashed(ID_E),
      Chars("my-db"),                                          \* passed through unchanged
      Chars("notion.so/-") \o Rep("z", IdLen - 10) }           \* 32 after stripping, no 32-char tail

Keys == <<"services", "deployments", "domains", "events">>

\* a database entry of the YAML config; an entry may omit notion_url
DbConfigs(i) ==
    { [key |-> Keys[i], notion_url |-> r] : r \in Refs } \cup { [key |-> Keys[i]] }

RECURSIVE DbLists(_)
\* the lists of exactly n database entries, keys unique within the bundle
DbLists(n) ==
    IF n = 0 THEN { <<>> }
    ELSE { Append(l, d) : l \in DbLists(n - 1), d \in DbConfigs(n) }
DbListsUpTo(n) == UNION { DbLists(k) : k \in 0..n }

\* the parsed YAML document
ConfigDoc(dbs, with_defaults) ==
    IF with_defaults
    THEN [export_bundles |->
              [core |-> [name |-> "Core", schema_version |-> "2.1.0", databases |-> dbs]],
          defaults |-> [output_root |-> "dist", manifest_filename |-> "bundle.json"]]
    ELSE [export_bundles |-> [core |-> [databases |-> dbs]]]

(* ------------------------------ state ---------------------------------- *)
VARIABLES
    argv,            \* parse_args(): [bundle, dry_run]
    config_file,     \* the file at args.config: [state, doc]
    environ,         \* os.environ
    fail_at,         \* ordinal of the query of a run that the service fails (0: none)
    pc,              \* position of main()
    exit_code,       \* process exit status, meaningful once pc = "exited"
    stderr,          \* diagnostics printed on the error stream
    db_idx,          \* main: position of the for loop over databases
    db_id,           \* export_database: resolved identifier
    pages,           \* query_all_pages: accumulated records
    start_cursor,    \* query_all_pages: continuation cursor
    rows,            \* export_database: rows built for the current database
    all_columns,     \* export_database: CSV field names
    manifest_items,  \* main: accumulated manifest items
    manifest,        \* main: the manifest once built
    queries,         \* every call of notion.databases.query, with its outcome
    fs_dirs,         \* directories created
    fs_files,        \* files written: path -> content
    run_no,          \* number of the current invocation
    clock,           \* the wall clock, in invocations
    prev             \* observable outcome of the previous invocation

vars == <<argv, config_file, environ, fail_at, pc, exit_code, stderr, db_idx, db_id,
          pages, start_cursor, rows, all_columns, manifest_items, manifest, queries,
          fs_dirs, fs_files, run_no, clock, prev>>

inputs == <<config_file, environ, fail_at>>
locals == <<db_id, pages, start_cursor, rows, all_columns>>
fs == <<fs_dirs, fs_files>>

\* datetime.now(timezone.utc).isoformat()
utc_now == "2026-01-0" \o ToString(clock) \o "T00:00:00+00:00"
BundleArgs == {"core", "nope"}
Environs ==
    { <<>>,
      [NOTION_TOKEN |-> ""],
      [NOTION_TOKEN |-> "secret"],
      [NOTION_TOKEN |-> "secret", CHITTY_ID |-> "CH-1", GITHUB_WORKFLOW |-> "export",
       GITHUB_ACTOR |-> "bot"] }
FileStates == {"missing", "malformed", "empty", "ok"}

\* os.getenv(name, default)
getenv(name, default) == Get(environ, name, default)
NoPrev == [ran |-> FALSE]

(* main's locals that are functions of the immutable inputs *)
cfg == config_file.doc
bundles == Get(cfg, "export_bundles", EmptyDict)
defaults == Get(cfg, "defaults", EmptyDict)
bundle_cfg == bundles[argv.bundle]
output_dir == <<Get(defaults, "output_root", "packages"), argv.bundle>>
databases == Get(bundle_cfg, "databases", <<>>)
manifest_filename == Get(defaults, "manifest_filename", "manifest.json")

\* Path.mkdir(parents=True, exist_ok=True)
mkdir_parents(dirs, path) == dirs \cup { SubSeq(path, 1, n) : n \in 1..Len(path) }

\* the combinations of config file, bundle argument and environment a run starts
\* from; the config with a defaults section goes with the environment that sets
\* the audit variables, the bare config with the environment that does not
Init ==
    /\ argv \in [bundle : BundleArgs, dry_run : BOOLEAN]
    /\ environ \in Environs
    /\ \/ \E st \in FileStates \ {"ok"} :
             config_file = [state |-> st, doc |-> ConfigDoc(<<>>, FALSE)]
       \/ \E dbs \in DbListsUpTo(IF argv.bundle = "core" /\ getenv("NOTION_TOKEN", "") # ""
                                 THEN MaxDbs ELSE 1) :
             config_file = [state |-> "ok",
                            doc |-> ConfigDoc(dbs, "GITHUB_ACTOR" \in DOMAIN environ)]
    /\ fail_at \in 0..MaxFailAt
    /\ pc = "start"
    /\ exit_code = 0
    /\ stderr = <<>>
    /\ db_idx = 1
    /\ db_id = None
    /\ pages = <<>>
    /\ start_cursor = None
    /\ rows = <<>>
    /\ all_columns = <<>>
    /\ manifest_items = <<>>
    /\ manifest = EmptyDict
    /\ queries = <<>>
    /\ fs_dirs = {}
    /\ fs_files = <<>>
    /\ run_no = 1
    /\ clock = 1
    /\ prev = NoPrev

\* sys.exit(1) after a diagnostic, or an uncaught exception
Exit1_status0(diag) ==
    /\ pc' = "exited"
    /\ exit_code' = 0
    /\ stderr' = Append(stderr, diag)

Exit1(diag) ==
    /\ pc' = "exited"
    /\ exit_code' = 1
    /\ stderr' = Append(stderr, diag)

(* ------------------------------ main ----------------------------------- *)
\* load_yaml_config(args.config)
LoadConfig ==
    /\ pc = "start"
    /\ CASE config_file.state = "missing" -> Exit1("Config file not found")
         [] config_file.state = "malformed" -> Exit1("Invalid YAML")
         [] OTHER -> pc' = "loaded" /\ UNCHANGED <<exit_code, stderr>>
    /\ UNCHANGED <<argv, inputs, db_idx, locals, manifest_items, manifest, queries, fs,
                   run_no, clock, prev>>

\* cfg.get(...) and the bundle lookup; an empty YAML document loads as None
SelectBundle ==
    /\ pc = "loaded"
    /\ CASE config_file.state = "empty" -> Exit1("AttributeError")
         [] argv.bundle \notin DOMAIN bundles -> Exit1("Bundle not found in config")
         [] OTHER -> pc' = "bundle_ok" /\ UNCHANGED <<exit_code, stderr>>
    /\ UNCHANGED <<argv, inputs, db_idx, locals, manifest_items, manifest, queries, fs,
                   run_no, clock, prev>>

\* os.getenv("NOTION_TOKEN") and the client construction
InitClient ==
    /\ pc = "bundle_ok"
    /\ IF getenv("NOTION_TOKEN", "") = ""
       THEN Exit1("NOTION_TOKEN environment variable not set")
       ELSE pc' = "loop" /\ UNCHANGED <<exit_code, stderr>>
    /\ manifest_items' = <<>>
    /\ UNCHANGED <<argv, inputs, db_idx, locals, manifest, queries, fs, run_no, clock, prev>>

(* ------------------------- export_database ---------------------------- *)
\* Python truthiness of a str-or-None
truthy(v) == v # None /\ v # <<>>

\* code points order the property names: "C" < "N" < "S" < "_", "_l" < "_n"
KeyOrder == <<"Count", "Name", "Status", "_last_edited", "_notion_id">>
\* sorted(keys)
sorted(keys) == SelectSeq(KeyOrder, LAMBDA k : k \in Range(keys))

\* the kwargs of one notion.databases.query call
query_kwargs(database_id, cursor) ==
    IF truthy(cursor)
    THEN [database_id |-> database_id, page_size |-> PageSize, start_cursor |-> cursor]
    ELSE [database_id |-> database_id, page_size |-> PageSize]

\* pages.extend(results)
pages_extend_replacing(acc, results) == results
pages_extend(acc, results) == acc \o results

\* the row dict built for one page against the fixed columns; the metadata
\* assignments come last
build_row(page, columns) ==
    LET props == Get(page, "properties", <<>>) IN
    [col \in Range(columns) \cup {"_notion_id", "_last_edited"} |->
        IF col = "_notion_id" THEN Get(page, "id", "")
        ELSE IF col = "_last_edited" THEN Get(page, "last_edited_time", "")
        ELSE IF dict_has(props, col) THEN flatten_property(dict_get(props, col))
        ELSE ""]
build_rows(ps, columns) == [i \in DOMAIN ps |-> build_row(ps[i], columns)]

\* csv.DictWriter(f, fieldnames).writeheader() / writerows(rows)
csv_text(fieldnames, rs) ==
    [header |-> fieldnames,
     lines |-> [i \in DOMAIN rs |-> [j \in DOMAIN fieldnames |-> rs[i][fieldnames[j]]]]]

csv_relpath(db_key) == "data/" \o db_key \o ".csv"
csv_path(db_key) == output_dir \o <<"data", db_key \o ".csv">>

\* return value for a database without records
empty_item_none(db_key) == EmptyDict
empty_item(db_key) == [db_key |-> db_key, output |-> csv_relpath(db_key), row_count |-> 0]
\* return value for an exported database
manifest_item(db_key, rs, cols) ==
    [db_key |-> db_key, output |-> csv_relpath(db_key), row_count |-> Len(rs),
     columns |-> Len(cols)]

\* export_database up to the call of query_all_pages, for the next database
ExportDatabase ==
    /\ pc = "loop"
    /\ db_idx <= Len(databases)
    /\ LET db_config == databases[db_idx]
           id == extract_notion_id(Get(db_config, "notion_url", <<>>))
       IN  /\ db_id' = id
           /\ IF ~truthy(id)
              THEN /\ stderr' = Append(stderr, "Skipping: placeholder URL")
                   /\ db_idx' = db_idx + 1
                   /\ pc' = "loop"
              ELSE /\ pc' = "query"
                   /\ UNCHANGED <<stderr, db_idx>>
    /\ pages' = <<>>
    /\ start_cursor' = None
    /\ rows' = <<>>
    /\ all_columns' = <<>>
    /\ UNCHANGED <<argv, inputs, exit_code, manifest_items, manifest, queries, fs,
                   run_no, clock, prev>>

\* the service fails the call: a transient failure, or an identifier it does not know
query_fails(kwargs) == Len(queries) + 1 = fail_at \/ kwargs.database_id \notin RemoteIds

\* one iteration of the loop of query_all_pages
Query_swallowing_errors ==
    /\ pc = "query"
    /\ LET kwargs == query_kwargs(db_id, start_cursor) IN
       IF query_fails(kwargs)
       THEN /\ queries' = Append(queries, [db |-> db_idx, kwargs |-> kwargs, ok |-> FALSE])
            /\ pc' = "fetched"
            /\ UNCHANGED <<pages, start_cursor, exit_code, stderr>>
       ELSE LET response == databases_query(kwargs) IN
            /\ queries' = Append(queries,
                                 [db |-> db_idx, kwargs |-> kwargs, ok |-> TRUE,
                                  count |-> Len(response.results),
                                  has_more |-> response.has_more,
                                  next_cursor |-> response.next_cursor])
            /\ pages' = pages_extend(pages, response.results)
            /\ IF ~response.has_more
               THEN pc' = "fetched" /\ UNCHANGED start_cursor
               ELSE pc' = "query" /\ start_cursor' = response.next_cursor
            /\ UNCHANGED <<exit_code, stderr>>
    /\ UNCHANGED <<argv, inputs, db_idx, db_id, rows, all_columns, manifest_items,
                   manifest, fs, run_no, clock, prev>>

Query ==
    /\ pc = "query"
    /\ LET kwargs == query_kwargs(db_id, start_cursor) IN
       IF query_fails(kwargs)
       THEN /\ queries' = Append(queries, [db |-> db_idx, kwargs |-> kwargs, ok |-> FALSE])
            /\ Exit1("Traceback: databases.query failed")
            /\ UNCHANGED <<pages, start_cursor>>
       ELSE LET response == databases_query(kwargs) IN
            /\ queries' = Append(queries,
                                 [db |-> db_idx, kwargs |-> kwargs, ok |-> TRUE,
                                  count |-> Len(response.results),
                                  has_more |-> response.has_more,
                                  next_cursor |-> response.next_cursor])
            /\ pages' = pages_extend(pages, response.results)
            /\ IF ~response.has_more
               THEN pc' = "fetched" /\ UNCHANGED start_cursor
               ELSE pc' = "query" /\ start_cursor' = response.next_cursor
            /\ UNCHANGED <<exit_code, stderr>>
    /\ UNCHANGED <<argv, inputs, db_idx, db_id, rows, all_columns, manifest_items,
                   manifest, fs, run_no, clock, prev>>

\* the dry-run branch and the CSV write of export_database
CsvOutput_ignoring_dry_run(dry_run, db_key, cols, rs) ==
    /\ fs_dirs' = mkdir_parents(fs_dirs, output_dir \o <<"data">>)
    /\ fs_files' = (csv_path(db_key) :> csv_text(cols, rs)) @@ fs_files

CsvOutput(dry_run, db_key, cols, rs) ==
    IF dry_run
    THEN UNCHANGED fs
    ELSE /\ fs_dirs' = mkdir_parents(fs_dirs, output_dir \o <<"data">>)
         /\ fs_files' = (csv_path(db_key) :> csv_text(cols, rs)) @@ fs_files

\* main: if result: manifest_items.append(result)
append_result(items, result) == IF result # EmptyDict THEN Append(items, result) ELSE items

\* export_database after the fetch, and main's append of its result
ExportRows_unlisted_in_dry_run ==
    /\ pc = "fetched"
    /\ LET db_key == databases[db_idx].key IN
       IF pages = <<>>
       THEN /\ manifest_items' = append_result(manifest_items, empty_item(db_key))
            /\ UNCHANGED <<rows, all_columns, fs>>
       ELSE LET first_props == Get(pages[1], "properties", <<>>)
                columns == sorted(dict_keys(first_props))
                rs == build_rows(pages, columns)
                cols == columns \o <<"_notion_id", "_last_edited">>
            IN  /\ rows' = rs
                /\ all_columns' = cols
                /\ CsvOutput(argv.dry_run, db_key, cols, rs)
                /\ manifest_items' =
                      IF argv.dry_run THEN manifest_items
                      ELSE append_result(manifest_items, manifest_item(db_key, rs, cols))
    /\ db_idx' = db_idx + 1
    /\ pc' = "loop"
    /\ UNCHANGED <<argv, inputs, exit_code, stderr, db_id, pages, start_cursor, manifest,
                   queries, run_no, clock, prev>>

ExportRows ==
    /\ pc = "fetched"
    /\ LET db_key == databases[db_idx].key IN
       IF pages = <<>>
       THEN /\ manifest_items' = append_result(manifest_items, empty_item(db_key))
            /\ UNCHANGED <<rows, all_columns, fs>>
       ELSE LET first_props == Get(pages[1], "properties", <<>>)
                columns == sorted(dict_keys(first_props))
                rs == build_rows(pages, columns)
                cols == columns \o <<"_notion_id", "_last_edited">>
            IN  /\ rows' = rs
                /\ all_columns' = cols
                /\ CsvOutput(argv.dry_run, db_key, cols, rs)
                /\ manifest_items' = append_result(manifest_items, manifest_item(db_key, rs, cols))
    /\ db_idx' = db_idx + 1
    /\ pc' = "loop"
    /\ UNCHANGED <<argv, inputs, exit_code, stderr, db_id, pages, start_cursor, manifest,
                   queries, run_no, clock, prev>>

(* ------------------------- the manifest -------------------------------- *)
row_counts(items) == [i \in DOMAIN items |-> Get(items[i], "row_count", 0)]

build_manifest_counting_items(items, now) ==
    [bundle |-> argv.bundle,
     name |-> Get(bundle_cfg, "name", None),
     schema_version |-> Get(bundle_cfg, "schema_version", "1.0.0"),
     exported_at |-> now,
     items |-> items,
     audit |-> [chitty_id |-> getenv("CHITTY_ID", ""),
                workflow |-> getenv("GITHUB_WORKFLOW", "manual"),
                actor |-> getenv("GITHUB_ACTOR", "local")],
     totals |-> [databases |-> Len(items), total_rows |-> Len(items)]]

build_manifest(items, now) ==
    [bundle |-> argv.bundle,
     name |-> Get(bundle_cfg, "name", None),
     schema_version |-> Get(bundle_cfg, "schema_version", "1.0.0"),
     exported_at |-> now,
     items |-> items,
     audit |-> [chitty_id |-> getenv("CHITTY_ID", ""),
                workflow |-> getenv("GITHUB_WORKFLOW", "manual"),
                actor |-> getenv("GITHUB_ACTOR", "local")],
     totals |-> [databases |-> Len(items), total_rows |-> SumSeq(row_counts(items))]]

manifest_path == output_dir \o <<manifest_filename>>

\* the dry-run branch and the manifest write of main
ManifestOutput(dry_run, m) ==
    IF dry_run
    THEN UNCHANGED fs
    ELSE /\ fs_dirs' = mkdir_parents(fs_dirs, output_dir)
         /\ fs_files' = (manifest_path :> m) @@ fs_files

\* main after the loop: build the manifest, write or print it, return
WriteManifest ==
    /\ pc = "loop"
    /\ db_idx > Len(databases)
    /\ manifest' = build_manifest(manifest_items, utc_now)
    /\ ManifestOutput(argv.dry_run, manifest')
    /\ pc' = "exited"
    /\ exit_code' = 0
    /\ UNCHANGED <<argv, inputs, stderr, db_idx, locals, manifest_items, queries, run_no, clock, prev>>

(* --------------------- a second invocation ----------------------------- *)
\* the program is run again in the other mode, on the same config, environment
\* and service
Rerun ==
    /\ pc = "exited"
    /\ run_no < MaxRuns
    /\ prev' = [ran |-> TRUE, dry_run |-> argv.dry_run, exit_code |-> exit_code,
                queries |-> queries, manifest_items |-> manifest_items,
                manifest |-> manifest]
    /\ argv' = [argv EXCEPT !.dry_run = ~@]
    /\ run_no' = run_no + 1
    /\ clock' = clock + 1
    /\ pc' = "start"
    /\ exit_code' = 0
    /\ stderr' = <<>>
    /\ db_idx' = 1
    /\ db_id' = None
    /\ pages' = <<>>
    /\ start_cursor' = None
    /\ rows' = <<>>
    /\ all_columns' = <<>>
    /\ manifest_items' = <<>>
    /\ manifest' = EmptyDict
    /\ queries' = <<>>
    /\ UNCHANGED <<inputs, fs>>

Next ==
    \/ LoadConfig
    \/ SelectBundle
    \/ InitClient
    \/ ExportDatabase
    \/ Query
    \/ ExportRows
    \/ WriteManifest

Spec == Init /\ [][Next]_vars

NextRerun ==
    \/ LoadConfig
    \/ SelectBundle
    \/ InitClient
    \/ ExportDatabase
    \/ Query
    \/ ExportRows
    \/ WriteManifest
    \/ Rerun

SpecRerun == Init /\ [][NextRerun]_vars

(* ======================= properties ==================================== *)
StartupOk ==
    /\ config_file.state = "ok"
    /\ argv.bundle \in DOMAIN bundles
    /\ getenv("NOTION_TOKEN", "") # ""
PastStartup == StartupOk /\ pc \notin {"start", "loaded", "bundle_ok"}
Completed == pc = "exited" /\ exit_code = 0
url_of(i) == Get(databases[i], "notion_url", <<>>)
key_of(i) == databases[i].key
IsPlaceholder(i) == startswith(url_of(i), TODO_MARK)
\* the queries issued for the i-th database of the bundle
queries_of(i) == SelectSeq(queries, LAMBDA q : q.db = i)
items_of(i) == SelectSeq(manifest_items, LAMBDA it : it.db_key = key_of(i))
item_keys == [j \in DOMAIN manifest_items |-> manifest_items[j].db_key]
RECURSIVE KeysWhere(_, _)
\* the keys of the first n databases whose index satisfies Keep, in configuration order
KeysWhere(Keep(_), n) ==
    IF n = 0 THEN <<>>
    ELSE IF Keep(n) THEN Append(KeysWhere(Keep, n - 1), key_of(n))
    ELSE KeysWhere(Keep, n - 1)
NoFilesWritten == fs_dirs = {} /\ DOMAIN fs_files = {}
HasRows(i) ==
    /\ extract_notion_id(url_of(i)) \in RemoteIds
    /\ RemoteRecords(extract_notion_id(url_of(i))) # <<>>

\* C1: in dry-run mode, at every point of the run and whatever the bundle
\* holds, no directory has been created and no file has been written (no CSV,
\* no manifest, no output directory).
C1_DryRunWritesNothing == argv.dry_run => NoFilesWritten

\* a dry run that completed over a bundle without skipped databases, with an empty and a
\* non-empty database
C1_Witness ==
    /\ argv.dry_run /\ Completed /\ Len(manifest_items) = Len(databases)
    /\ \E i, j \in DOMAIN manifest_items :
          manifest_items[i].row_count = 0 /\ manifest_items[j].row_count > 0

\* C2: when the next database's reference begins with "TODO:", the step that
\* handles it resolves it to not-resolvable, issues no query, adds no manifest
\* item, and leaves the run at the loop head on the following database.
C2_PlaceholderSkipped ==
    [][ (pc = "loop" /\ db_idx <= Len(databases) /\ IsPlaceholder(db_idx))
        => /\ db_id' = None
           /\ queries' = queries
           /\ manifest_items' = manifest_items
           /\ pc' = "loop"
           /\ db_idx' = db_idx + 1 ]_vars

\* the first database was a placeholder, nothing was queried or listed for it,
\* and the run is now fetching the second database
C2_Witness ==
    /\ pc = "query" /\ db_idx = 2 /\ IsPlaceholder(1)
    /\ queries = <<>> /\ manifest_items = <<>>

PagesServed(n) == IF n = 0 THEN 1 ELSE (n + PageSize - 1) \div PageSize

\* C3: when query_all_pages has returned for a database that the service
\* serves as k pages, exactly k queries were issued for it, the first without
\* a cursor and each later one with the cursor of the response before it, only
\* the last response signalled no more data, and the accumulated records are
\* the database's records in the order served, none lost or duplicated.
C3_PaginationComplete ==
    pc = "fetched" =>
        LET qs == queries_of(db_idx)
            recs == RemoteRecords(db_id)
        IN  /\ Len(qs) = PagesServed(Len(recs))
            /\ "start_cursor" \notin DOMAIN qs[1].kwargs
            /\ \A j \in 2..Len(qs) :
                  /\ "start_cursor" \in DOMAIN qs[j].kwargs
                  /\ qs[j].kwargs.start_cursor = qs[j-1].next_cursor
            /\ \A j \in 1..Len(qs) : qs[j].ok /\ (qs[j].has_more <=> j < Len(qs))
            /\ pages = recs
            /\ Len(pages) = SumSeq([j \in DOMAIN qs |-> qs[j].count])

\* 150 records at page size 100 were fetched with exactly two queries
C3_Witness ==
    /\ pc = "fetched" /\ Len(pages) = PageSize + PageSize \div 2
    /\ Len(queries_of(db_idx)) = 2

\* C4: every database already handled whose reference resolved and whose
\* fetch returned no record has exactly one manifest item, with row_count = 0,
\* and no CSV file, in dry-run and in real mode.
C4_EmptyDatabaseListed ==
    PastStartup =>
        \A i \in 1..(db_idx - 1) :
            LET id == extract_notion_id(url_of(i)) IN
            (id \in RemoteIds /\ RemoteRecords(id) = <<>>)
                => /\ Len(items_of(i)) = 1
                   /\ items_of(i)[1].row_count = 0
                   /\ csv_path(key_of(i)) \notin DOMAIN fs_files

\* a real run has handled an empty database after writing another one's CSV
C4_Witness ==
    /\ PastStartup /\ ~argv.dry_run /\ db_idx = 3
    /\ HasRows(1) /\ extract_notion_id(url_of(2)) = ID_D
    /\ Len(manifest_items) = 2 /\ manifest_items[2].row_count = 0
    /\ DOMAIN fs_files = {csv_path(key_of(1))}

Resolvable(i) == ~IsPlaceholder(i) /\ url_of(i) # <<>>
NotPlaceholder(i) == ~IsPlaceholder(i)
ManifestTotalsRight ==
    /\ manifest.items = manifest_items
    /\ manifest.totals.databases = Len(manifest_items)
    /\ manifest.totals.total_rows = SumSeq([j \in DOMAIN manifest_items |-> manifest_items[j].row_count])
    /\ \A i \in 1..Len(databases) :
          Resolvable(i) =>
              /\ Len(items_of(i)) = 1
              /\ items_of(i)[1].row_count = Len(RemoteRecords(extract_notion_id(url_of(i))))

StartupError ==
    \/ config_file.state \in {"missing", "malformed"}
    \/ /\ config_file.state = "ok"
       /\ \/ argv.bundle \notin DOMAIN bundles
          \/ getenv("NOTION_TOKEN", "") = ""

\* C6: with a missing or unparseable config file, an unknown bundle key or a
\* missing credential, the run never gets past the startup checks: it issues
\* no query, writes no file or directory, and when it has terminated the exit
\* code is 1.
C6_StartupErrorsExit1 ==
    StartupError =>
        /\ pc \in {"start", "loaded", "bundle_ok", "exited"}
        /\ queries = <<>>
        /\ NoFilesWritten
        /\ pc = "exited" => exit_code = 1

\* a real run over a bundle with a resolvable database stopped on the missing
\* credential
C6_Witness ==
    /\ pc = "exited" /\ exit_code = 1 /\ ~argv.dry_run
    /\ config_file.state = "ok" /\ argv.bundle \in DOMAIN bundles
    /\ "NOTION_TOKEN" \notin DOMAIN environ
    /\ Len(databases) = 1 /\ HasRows(1)

FetchFailed == queries # <<>> /\ ~queries[Len(queries)].ok
\* the CSV that export_database writes for the i-th database
csv_of(i) ==
    LET recs == RemoteRecords(extract_notion_id(url_of(i)))
        columns == sorted(dict_keys(Get(recs[1], "properties", <<>>)))
    IN  csv_text(columns \o <<"_notion_id", "_last_edited">>, build_rows(recs, columns))

\* C7: once a query has failed while the k-th database was being fetched, the
\* run has terminated with that query as its last one (no retry, no further
\* query), no CSV exists for the k-th or a later database, no manifest was
\* built or written, and the CSV of every earlier database that has records is
\* still in place with the content written for it.
C7_FetchFailureAborts ==
    FetchFailed =>
        /\ pc = "exited" /\ exit_code # 0
        /\ \A j \in 1..(Len(queries) - 1) : queries[j].ok
        /\ queries[Len(queries)].db = db_idx
        /\ manifest = EmptyDict
        /\ manifest_path \notin DOMAIN fs_files
        /\ \A i \in db_idx..Len(databases) : csv_path(key_of(i)) \notin DOMAIN fs_files
        /\ ~argv.dry_run =>
              \A i \in 1..(db_idx - 1) :
                  (Resolvable(i) /\ HasRows(i)) =>
                      /\ csv_path(key_of(i)) \in DOMAIN fs_files
                      /\ fs_files[csv_path(key_of(i))] = csv_of(i)

\* a real run wrote the first database's CSV and then failed on the second
C7_Witness ==
    /\ FetchFailed /\ ~argv.dry_run /\ db_idx = 2 /\ HasRows(1)
    /\ DOMAIN fs_files = {csv_path(key_of(1))}

\* C8 as stated: whenever rows have been built, the field names are the first
\* record's property keys in lexicographic order followed by _notion_id and
\* _last_edited, every row has exactly these columns, a record lacking one of
\* the first record's properties has "" in that column, and no property absent
\* from the first record appears in a row.
C8_UniformColumns ==
    (pc = "loop" /\ rows # <<>>) =>
        LET first_keys == dict_keys(Get(pages[1], "properties", <<>>)) IN
        /\ all_columns = sorted(first_keys) \o <<"_notion_id", "_last_edited">>
        /\ \A i \in DOMAIN rows :
              LET props == Get(pages[i], "properties", <<>>) IN
              /\ DOMAIN rows[i] = Range(first_keys) \cup {"_notion_id", "_last_edited"}
              /\ \A col \in Range(first_keys) : ~dict_has(props, col) => rows[i][col] = ""
              /\ \A col \in Range(dict_keys(props)) \ Range(first_keys) :
                    col \notin {"_notion_id", "_last_edited"} => col \notin DOMAIN rows[i]

\* C9 as stated: every reference whose length is 32 once its hyphens are
\* removed resolves to the hyphen-stripped reference.
C9_Original ==
    [][ (pc = "loop" /\ db_idx <= Len(databases)
            /\ Len(strip_hyphens(url_of(db_idx))) = IdLen)
        => db_id' = strip_hyphens(url_of(db_idx)) ]_vars

\* C9 (amended): every reference that does not begin with "TODO:" and whose
\* length is 32 once its hyphens are removed resolves to the hyphen-stripped
\* reference; one that begins with "TODO:" stays not-resolvable.
C9_StrippedIdReturned ==
    [][ (pc = "loop" /\ db_idx <= Len(databases)
            /\ ~IsPlaceholder(db_idx)
            /\ Len(strip_hyphens(url_of(db_idx))) = IdLen)
        => db_id' = strip_hyphens(url_of(db_idx)) ]_vars

\* a dashed reference was resolved to its 32 characters
C9_Witness ==
    /\ pc = "query"
    /\ url_of(db_idx) # strip_hyphens(url_of(db_idx))
    /\ Len(strip_hyphens(url_of(db_idx))) = IdLen
    /\ db_id = strip_hyphens(url_of(db_idx))

WithoutTimestamp(m) == IF m = EmptyDict THEN m ELSE [m EXCEPT !.exported_at = ""]

\* C10: when the program has been run twice on the same configuration,
\* environment and service, once in dry-run and once in real mode, and the
\* second run has terminated, both runs issued the same sequence of queries
\* with the same outcomes and built the same manifest items and, apart from
\* the export timestamp, the same manifest.
C10_DryRunSameAsReal ==
    (prev.ran /\ pc = "exited" /\ prev.dry_run # argv.dry_run) =>
        /\ queries = prev.queries
        /\ manifest_items = prev.manifest_items
        /\ exit_code = prev.exit_code
        /\ WithoutTimestamp(manifest) = WithoutTimestamp(prev.manifest)

\* a dry run after a real run, both completed, over a paginated database, with
\* different timestamps
C10_Witness ==
    /\ prev.ran /\ ~prev.dry_run /\ argv.dry_run /\ Completed /\ prev.exit_code = 0
    /\ Len(queries) >= 2 /\ manifest.totals.total_rows > PageSize
    /\ manifest.exported_at # prev.manifest.exported_at
    /\ manifest_path \in DOMAIN fs_files

====
